---- MODULE Spec2Model ----
(***************************************************************************)
(* The data-preparation pipeline of streamlit_app.py: one script run, from *)
(* the uploaded CSV to the daily table handed to the charts.               *)
(*                                                                         *)
(* Text (column names, CSV cells) is a sequence of one-character strings,  *)
(* so that lower-casing, substring search and number/date parsing are      *)
(* computed, not assumed.  A table cell is a record                        *)
(*    [k |-> kind, v |-> integer, d |-> denominator, s |-> text]           *)
(* of kind "num" (the rational v/d), "nan", "str" (text s), "ts" (a        *)
(* timestamp, v hours since 2024-01-01 00:00) or "nat".                    *)
(***************************************************************************)
EXTENDS Integers, Sequences, FiniteSets, TLC

\* Largest number of data rows in the uploaded CSV.
MaxRows == 2

----------------------------------------------------------------------------
\* Cells

Num(n) == [k |-> "num", v |-> n, d |-> 1, s |-> <<>>]
Frac(n, m) == [k |-> "num", v |-> n, d |-> m, s |-> <<>>]
NaN == [k |-> "nan", v |-> 0, d |-> 1, s |-> <<>>]
Str(t) == [k |-> "str", v |-> 0, d |-> 1, s |-> t]
Ts(h) == [k |-> "ts", v |-> h, d |-> 1, s |-> <<>>]
NaT == [k |-> "nat", v |-> 0, d |-> 1, s |-> <<>>]

\* datetime.date: v days since 2024-01-01.
Date(n) == [k |-> "date", v |-> n, d |-> 1, s |-> <<>>]

\* Python's None for date_col.
None == <<>>

----------------------------------------------------------------------------
\* Text

UpperChars == <<"A","B","C","D","E","F","G","H","I","J","K","L","M",
                "N","O","P","Q","R","S","T","U","V","W","X","Y","Z">>
LowerChars == <<"a","b","c","d","e","f","g","h","i","j","k","l","m",
                "n","o","p","q","r","s","t","u","v","w","x","y","z">>
DigitChars == <<"0","1","2","3","4","5","6","7","8","9">>

\* str.lower()
LowerChar(c) ==
    IF \E i \in 1..26 : UpperChars[i] = c
    THEN LowerChars[CHOOSE i \in 1..26 : UpperChars[i] = c]
    ELSE c
Lower(t) == [i \in 1..Len(t) |-> LowerChar(t[i])]

\* Python's `x in t` for strings
Contains(t, x) ==
    \E i \in 1..(Len(t) - Len(x) + 1) : SubSeq(t, i, i + Len(x) - 1) = x

IsDigit(c) == \E i \in 1..10 : DigitChars[i] = c
DigitVal(c) == (CHOOSE i \in 1..10 : DigitChars[i] = c) - 1
AllDigits(t) == \A i \in 1..Len(t) : IsDigit(t[i])

RECURSIVE DecimalVal(_)
DecimalVal(t) ==
    IF t = <<>> THEN 0
    ELSE 10 * DecimalVal(SubSeq(t, 1, Len(t) - 1)) + DigitVal(t[Len(t)])

\* A token the CSV reader and pd.to_numeric read as a number (unsigned
\* decimal integers are the numerals the inputs use).
IsNumeral(t) == Len(t) > 0 /\ AllDigits(t)

\* Indices i with flags[i], ascending.
Kept(flags) ==
    LET F[i \in 0..Len(flags)] ==
            IF i = 0 THEN <<>>
            ELSE IF flags[i] THEN Append(F[i - 1], i) ELSE F[i - 1]
    IN  F[Len(flags)]

----------------------------------------------------------------------------
\* Timestamps: "YYYY-MM-DD" or "YYYY-MM-DDThh", calendar year 2024.

DaysBeforeMonth == <<0, 31, 60, 91, 121, 152, 182, 213, 244, 274, 305, 335>>
DaysInMonth == <<31, 29, 31, 30, 31, 30, 31, 31, 30, 31, 30, 31>>

IsDateText(t) ==
    /\ Len(t) \in {10, 13}
    /\ AllDigits(SubSeq(t, 1, 4)) /\ t[5] = "-"
    /\ AllDigits(SubSeq(t, 6, 7)) /\ t[8] = "-"
    /\ AllDigits(SubSeq(t, 9, 10))
    /\ DecimalVal(SubSeq(t, 1, 4)) = 2024
    /\ DecimalVal(SubSeq(t, 6, 7)) \in 1..12
    /\ DecimalVal(SubSeq(t, 9, 10)) \in 1..DaysInMonth[DecimalVal(SubSeq(t, 6, 7))]
    /\ Len(t) = 13 =>
          /\ t[11] = "T"
          /\ AllDigits(SubSeq(t, 12, 13))
          /\ DecimalVal(SubSeq(t, 12, 13)) \in 0..23

HoursOf(t) ==
    24 * (DaysBeforeMonth[DecimalVal(SubSeq(t, 6, 7))]
            + DecimalVal(SubSeq(t, 9, 10)) - 1)
    + (IF Len(t) = 13 THEN DecimalVal(SubSeq(t, 12, 13)) ELSE 0)

\* Timestamp.date(): the calendar day, as days since 2024-01-01.
DateOf(ts) == ts.v \div 24

----------------------------------------------------------------------------
\* Uploaded files: a header and up to MaxRows rows of text cells.

nDate == <<"D","a","t","e">>
nTime == <<"T","i","m","e">>
nDATE2 == <<"R","E","A","D","_","D","A","T","E">>
nPM25 == <<"P","M","2",".","5">>
nNO2 == <<"N","O","2">>
nSO2 == <<"s","o","2">>
nTemp == <<"T","e","m","p">>

d0101 == <<"2","0","2","4","-","0","1","-","0","1">>
d0102 == <<"2","0","2","4","-","0","1","-","0","2">>
d0107 == <<"2","0","2","4","-","0","1","-","0","7","T","0","6">>
dBad == <<"n","/","a">>
v50 == <<"5","0">>
v70 == <<"7","0">>
v30 == <<"3","0">>
vX == <<"x">>
vEmpty == <<>>

\* Each header with, per column, the texts its cells are drawn from.
Headers ==
    { [names |-> <<nDate, nPM25, nNO2>>,
       texts |-> <<{d0101, d0107, dBad}, {v50, v70, vX}, {v30, vX}>>],
      [names |-> <<nPM25, nNO2>>,
       texts |-> <<{v50, vX}, {v30, vEmpty}>>],
      [names |-> <<nDate, nTemp>>,
       texts |-> <<{d0101, d0102, dBad}, {v30, vX}>>],
      [names |-> <<nPM25, nPM25, nDate>>,
       texts |-> <<{v50, v70}, {v30, vX}, {d0101, d0102}>>],
      [names |-> <<nTime, nDATE2, nSO2>>,
       texts |-> <<{d0102, d0101}, {d0107, dBad}, {v50, vEmpty}>>] }

RowsOf(texts) ==
    LET all == UNION {texts[j] : j \in 1..Len(texts)}
    IN  {r \in [1..Len(texts) -> all] : \A j \in 1..Len(texts) : r[j] \in texts[j]}

Uploads ==
    UNION { UNION { {[header |-> h.names, rows |-> rs] :
                        rs \in [1..n -> RowsOf(h.texts)]} : n \in 0..MaxRows }
            : h \in Headers }

----------------------------------------------------------------------------
VARIABLES
    pc,                   \* the statement the run is at
    csv,                  \* uploaded_file
    df,                   \* the DataFrame df
    date_col,
    pollutant_cols,
    selected_pollutants,
    start_date,
    end_date,
    df_daily,
    rolling_avg,
    messages              \* what the run showed: st.success / warning / error, exceptions

vars == <<pc, csv, df, date_col, pollutant_cols, selected_pollutants,
          start_date, end_date, df_daily, rolling_avg, messages>>

EmptyFrame == [columns |-> <<>>, dtypes |-> <<>>, index |-> "range", rows |-> <<>>]

Init ==
    /\ pc = "read_csv"
    /\ csv \in Uploads
    /\ df = EmptyFrame
    /\ date_col = None
    /\ pollutant_cols = <<>>
    /\ selected_pollutants = {}
    /\ start_date = NaT
    /\ end_date = NaT
    /\ df_daily = EmptyFrame
    /\ rolling_avg = EmptyFrame
    /\ messages = <<>>

----------------------------------------------------------------------------
\* Lines 28-30: pd.read_csv, then df.loc[:, ~df.columns.duplicated()]

\* read_csv renames a repeated header name: the k-th repeat of X becomes X.k
MangleDupeCols(header) ==
    [j \in 1..Len(header) |->
        LET k == Cardinality({i \in 1..(j - 1) : header[i] = header[j]})
        IN  IF k = 0 THEN header[j]
            ELSE header[j] \o <<".", DigitChars[k + 1]>>]

\* The type read_csv infers for a column: numeric when every cell is a
\* numeral or empty (and there is a row), object (text) otherwise.
InferDtype(texts) ==
    IF Len(texts) > 0 /\ \A i \in 1..Len(texts) : texts[i] = <<>> \/ IsNumeral(texts[i])
    THEN "numeric" ELSE "object"

ReadCell(dtype, t) ==
    IF t = <<>> THEN NaN
    ELSE IF dtype = "numeric" THEN Num(DecimalVal(t))
    ELSE Str(t)

ReadCsv(c) ==
    LET n == Len(c.header)
        colTexts(j) == [i \in 1..Len(c.rows) |-> c.rows[i][j]]
        dts == [j \in 1..n |-> InferDtype(colTexts(j))]
    IN  [columns |-> MangleDupeCols(c.header),
         dtypes |-> dts,
         index |-> "range",
         rows |-> [i \in 1..Len(c.rows) |->
                     [pos |-> i,
                      idx |-> Num(i - 1),
                      cells |-> [j \in 1..n |-> ReadCell(dts[j], c.rows[i][j])]]]]

\* Index.duplicated(): TRUE at every occurrence of a name after its first
Duplicated(cols) ==
    [j \in 1..Len(cols) |-> \E i \in 1..(j - 1) : cols[i] = cols[j]]

\* d.loc[:, keep]: the columns at the indices keep, in that order
TakeColumns(d, keep) ==
    [d EXCEPT !.columns = [j \in 1..Len(keep) |-> d.columns[keep[j]]],
              !.dtypes = [j \in 1..Len(keep) |-> d.dtypes[keep[j]]],
              !.rows = [i \in 1..Len(d.rows) |->
                          [d.rows[i] EXCEPT !.cells =
                              [j \in 1..Len(keep) |-> d.rows[i].cells[keep[j]]]]]]

DropDuplicatedColumns(d) ==
    LET dup == Duplicated(d.columns)
    IN  TakeColumns(d, Kept([j \in 1..Len(dup) |-> ~dup[j]]))

Load ==
    /\ pc = "read_csv"
    /\ df' = DropDuplicatedColumns(ReadCsv(csv))
    /\ messages' = Append(messages, "success: dataset loaded")
    /\ pc' = "date_col"
    /\ UNCHANGED <<csv, date_col, pollutant_cols, selected_pollutants,
                   start_date, end_date, df_daily, rolling_avg>>

----------------------------------------------------------------------------
\* Lines 31-42: the date column, found by name, becomes the sorted index.

IsDateName(c) ==
    \/ Contains(Lower(c), <<"d","a","t","e">>)
    \/ Contains(Lower(c), <<"t","i","m","e">>)

\* for c in df.columns: if ...: date_col = c; break
DetectDateCol(cols) ==
    IF \E j \in 1..Len(cols) : IsDateName(cols[j])
    THEN cols[CHOOSE j \in 1..Len(cols) :
                  /\ IsDateName(cols[j])
                  /\ \A i \in 1..(j - 1) : ~IsDateName(cols[i])]
    ELSE None

\* pd.to_datetime(errors="coerce") on one cell; a number counts nanoseconds
\* from 1970-01-01, 19723 days before 2024-01-01.
ToDatetime(cell) ==
    CASE cell.k = "str" -> IF IsDateText(cell.s) THEN Ts(HoursOf(cell.s)) ELSE NaT
      [] cell.k = "num" -> Ts((0 - 19723) * 24)
      [] cell.k = "ts" -> cell
      [] OTHER -> NaT

ColIndex(d, c) == CHOOSE j \in 1..Len(d.columns) : d.columns[j] = c

\* df[c] = pd.to_datetime(df[c], errors="coerce")
ParseDateColumn(d, c) ==
    LET j == ColIndex(d, c)
    IN  [d EXCEPT !.dtypes[j] = "datetime",
                  !.rows = [i \in 1..Len(d.rows) |->
                              [d.rows[i] EXCEPT !.cells[j] = ToDatetime(d.rows[i].cells[j])]]]

\* Series.isna() of one cell
IsNa(cell) == cell.k \in {"nan", "nat"}

\* df.dropna(subset=[c])
DropNaDate(d, c) ==
    LET j == ColIndex(d, c)
    IN  [d EXCEPT !.rows = SelectSeq(d.rows, LAMBDA r : ~IsNa(r.cells[j]))]

\* No sort: the rows stay as they were.
SortOrdersUnsorted(d, c) == {d.rows}

\* df.sort_values(by=c): the default sort is not a stable one, so rows with
\* equal timestamps may come out in any order.
SortOrders(d, c) ==
    LET j == ColIndex(d, c)
        n == Len(d.rows)
    IN  { [i \in 1..n |-> d.rows[p[i]]] :
            p \in { q \in [1..n -> 1..n] :
                      /\ \A a, b \in 1..n : a # b => q[a] # q[b]
                      /\ \A a, b \in 1..n :
                            a < b => d.rows[q[a]].cells[j].v <= d.rows[q[b]].cells[j].v } }

\* df.set_index(c)
SetIndex(d, c) ==
    LET j == ColIndex(d, c)
        keep == Kept([i \in 1..Len(d.columns) |-> i # j])
        moved == [d EXCEPT !.index = "datetime",
                           !.rows = [i \in 1..Len(d.rows) |->
                                       [d.rows[i] EXCEPT !.idx = d.rows[i].cells[j]]]]
    IN  TakeColumns(moved, keep)

TemporalIndex ==
    /\ pc = "date_col"
    /\ date_col' = DetectDateCol(df.columns)
    /\ \/ /\ date_col' # None
          /\ \E sorted \in SortOrders(DropNaDate(ParseDateColumn(df, date_col'), date_col'),
                                      date_col') :
                df' = SetIndex([DropNaDate(ParseDateColumn(df, date_col'), date_col')
                                   EXCEPT !.rows = sorted], date_col')
          /\ UNCHANGED messages
       \/ /\ date_col' = None
          /\ messages' = Append(messages, "warning: no date column detected")
          /\ UNCHANGED df
    /\ pc' = "pollutant_cols"
    /\ UNCHANGED <<csv, pollutant_cols, selected_pollutants,
                   start_date, end_date, df_daily, rolling_avg>>

----------------------------------------------------------------------------
\* Lines 44-52: candidate pollutant columns, the user's selection.

PollutantKeys ==
    { <<"p","m","2">>, <<"p","m","1","0">>, <<"n","o","2">>,
      <<"s","o","2">>, <<"c","o">>, <<"o","3">> }

IsPollutantName(c) == \E x \in PollutantKeys : Contains(Lower(c), x)

PollutantCols(cols) == SelectSeq(cols, IsPollutantName)

Classify ==
    /\ pc = "pollutant_cols"
    /\ pollutant_cols' = PollutantCols(df.columns)
    /\ pc' = "multiselect"
    /\ UNCHANGED <<csv, df, date_col, selected_pollutants,
                   start_date, end_date, df_daily, rolling_avg, messages>>

Range(q) == {q[i] : i \in 1..Len(q)}

\* What st.multiselect can return: the default pollutant_cols[:3], or any
\* choice among the options.
MultiselectChoices(options) ==
    {Range(SubSeq(options, 1, IF Len(options) < 3 THEN Len(options) ELSE 3))}
        \cup SUBSET Range(options)

\* The check left out: no selection ever stops the run.
NoSelectionIgnored(sel) == FALSE

\* `if not selected_pollutants:`
NoSelection(sel) == sel = {}

Select ==
    /\ pc = "multiselect"
    /\ \E sel \in MultiselectChoices(pollutant_cols) :
          /\ selected_pollutants' = sel
          /\ \/ /\ NoSelection(sel)
                /\ messages' = Append(messages, "warning: select at least one pollutant")
                /\ pc' = "stopped"
             \/ /\ ~NoSelection(sel)
                /\ UNCHANGED messages
                /\ pc' = "date_input"
    /\ UNCHANGED <<csv, df, date_col, pollutant_cols,
                   start_date, end_date, df_daily, rolling_avg>>

----------------------------------------------------------------------------
\* Lines 53-58: the two date inputs and the range filter.

\* df.index.min().date() and df.index.max().date() of a non-empty datetime index
IndexMinDate(d) ==
    Date(DateOf(d.rows[CHOOSE i \in 1..Len(d.rows) :
                          \A k \in 1..Len(d.rows) : d.rows[i].idx.v <= d.rows[k].idx.v].idx))
IndexMaxDate(d) ==
    Date(DateOf(d.rows[CHOOSE i \in 1..Len(d.rows) :
                          \A k \in 1..Len(d.rows) : d.rows[i].idx.v >= d.rows[k].idx.v].idx))

\* The dates the user may leave or pick in the two st.date_input widgets:
\* the default, or one day inside it.
StartChoices(d) == {IndexMinDate(d), Date(IndexMinDate(d).v + 1)}
EndChoices(d) == {IndexMaxDate(d), Date(IndexMaxDate(d).v - 1)}

DateInputs ==
    /\ pc = "date_input"
    /\ \/ \* no date column: df.index is a RangeIndex, its min() is a number,
          \* and a number has no .date()
          /\ df.index = "range"
          /\ messages' = Append(messages, "exception: AttributeError")
          /\ pc' = "crashed"
          /\ UNCHANGED <<start_date, end_date>>
       \/ \* every date was dropped: min() is NaT and NaT.date() is NaT, which
          \* st.date_input either rejects or hands on
          /\ df.index = "datetime" /\ df.rows = <<>>
          /\ \/ /\ messages' = Append(messages, "exception: date_input")
                /\ pc' = "crashed"
                /\ UNCHANGED <<start_date, end_date>>
             \/ /\ start_date' = NaT /\ end_date' = NaT
                /\ pc' = "range_filter"
                /\ UNCHANGED messages
       \/ /\ df.index = "datetime" /\ df.rows # <<>>
          /\ \E s \in StartChoices(df), e \in EndChoices(df) :
                start_date' = s /\ end_date' = e
          /\ pc' = "range_filter"
          /\ UNCHANGED messages
    /\ UNCHANGED <<csv, df, date_col, pollutant_cols, selected_pollutants,
                   df_daily, rolling_avg>>

\* (df.index.date >= start_date) & (df.index.date <= end_date), for one row;
\* a comparison with NaT is False
InRange(ts, s, e) ==
    /\ s.k = "date" /\ e.k = "date"
    /\ DateOf(ts) >= s.v
    /\ DateOf(ts) <= e.v

FilterRange(d, s, e) ==
    [d EXCEPT !.rows = SelectSeq(d.rows, LAMBDA r : InRange(r.idx, s, e))]

\* DataFrame.empty
IsEmpty(d) == d.rows = <<>> \/ d.columns = <<>>

RangeFilter ==
    /\ pc = "range_filter"
    /\ df' = FilterRange(df, start_date, end_date)
    /\ \/ /\ IsEmpty(df')
          /\ messages' = Append(messages, "error: no data for selected range")
          /\ pc' = "stopped"
       \/ /\ ~IsEmpty(df')
          /\ UNCHANGED messages
          /\ pc' = "to_numeric"
    /\ UNCHANGED <<csv, date_col, pollutant_cols, selected_pollutants,
                   start_date, end_date, df_daily, rolling_avg>>

----------------------------------------------------------------------------
\* Lines 60-61: numeric coercion, then the all-missing rows are dropped.

\* pd.to_numeric(errors="coerce") on one cell
ToNumeric(cell) ==
    CASE cell.k = "num" -> cell
      [] cell.k = "str" -> IF IsNumeral(cell.s) THEN Num(DecimalVal(cell.s)) ELSE NaN
      [] OTHER -> NaN

\* df[sel] = df[sel].apply(pd.to_numeric, errors="coerce")
CoerceSelected(d, sel) ==
    [d EXCEPT !.dtypes = [j \in 1..Len(d.columns) |->
                            IF d.columns[j] \in sel THEN "numeric" ELSE d.dtypes[j]],
              !.rows = [i \in 1..Len(d.rows) |->
                          [d.rows[i] EXCEPT !.cells =
                              [j \in 1..Len(d.columns) |->
                                  IF d.columns[j] \in sel
                                  THEN ToNumeric(d.rows[i].cells[j])
                                  ELSE d.rows[i].cells[j]]]]]

Coerce ==
    /\ pc = "to_numeric"
    /\ df' = CoerceSelected(df, selected_pollutants)
    /\ pc' = "dropna"
    /\ UNCHANGED <<csv, date_col, pollutant_cols, selected_pollutants,
                   start_date, end_date, df_daily, rolling_avg, messages>>

\* how="any": a row goes as soon as one of its sel cells is missing.
DropsRowAny(d, sel, r) ==
    \E j \in 1..Len(d.columns) : d.columns[j] \in sel /\ IsNa(r.cells[j])

\* dropna(subset=sel, how="all") drops a row when all its sel cells are missing
DropsRow(d, sel, r) ==
    \A j \in 1..Len(d.columns) : d.columns[j] \in sel => IsNa(r.cells[j])

DropNaAll(d, sel) ==
    [d EXCEPT !.rows = SelectSeq(d.rows, LAMBDA r : ~DropsRow(d, sel, r))]

DropAllMissing ==
    /\ pc = "dropna"
    /\ df' = DropNaAll(df, selected_pollutants)
    /\ pc' = "resample"
    /\ UNCHANGED <<csv, date_col, pollutant_cols, selected_pollutants,
                   start_date, end_date, df_daily, rolling_avg, messages>>

----------------------------------------------------------------------------
\* Line 62: df.resample("D").mean()

RECURSIVE GCD(_, _)
GCD(a, b) == IF b = 0 THEN a ELSE GCD(b, a % b)

\* n/m in lowest terms, m > 0
Ratio(n, m) ==
    LET g == GCD(IF n < 0 THEN 0 - n ELSE n, m)
    IN  Frac(n \div g, m \div g)

RECURSIVE SumOf(_)
SumOf(cells) ==
    IF cells = <<>> THEN Num(0)
    ELSE LET a == SumOf(Tail(cells))
             b == Head(cells)
         IN  Ratio(a.v * b.d + b.v * a.d, a.d * b.d)

\* A mean that divides by the number of cells, the missing ones included.
MeanOverAllCells(cells) ==
    LET valid == SelectSeq(cells, LAMBDA c : ~IsNa(c))
    IN  IF valid = <<>> THEN NaN
        ELSE Ratio(SumOf(valid).v, SumOf(valid).d * Len(cells))

\* mean(): the missing values are skipped; no value left gives NaN
MeanOf(cells) ==
    LET valid == SelectSeq(cells, LAMBDA c : ~IsNa(c))
    IN  IF valid = <<>> THEN NaN
        ELSE Ratio(SumOf(valid).v, SumOf(valid).d * Len(valid))

\* Bins for the days that have a row only, as a group-by on the date gives.
ResampleDaysPresentOnly(d) ==
    LET S == {DateOf(d.rows[i].idx) : i \in 1..Len(d.rows)}
    IN  [i \in 1..Cardinality(S) |->
            CHOOSE x \in S : Cardinality({y \in S : y < x}) = i - 1]

\* resample("D") bins: one per calendar day from the first index day to the last
ResampleDays(d) ==
    IF d.rows = <<>> THEN <<>>
    ELSE [i \in 1..(IndexMaxDate(d).v - IndexMinDate(d).v + 1) |->
             IndexMinDate(d).v + i - 1]

ResampleDailyMean(d) ==
    LET days == ResampleDays(d)
    IN  [d EXCEPT !.rows =
            [i \in 1..Len(days) |->
                [pos |-> i,
                 idx |-> Ts(24 * days[i]),
                 cells |-> [j \in 1..Len(d.columns) |->
                              LET bin == SelectSeq(d.rows,
                                            LAMBDA r : DateOf(r.idx) = days[i])
                              IN  MeanOf([k \in 1..Len(bin) |-> bin[k].cells[j]])]]]]

\* The columns mean() can average
NumericOnly(d) ==
    TakeColumns(d, Kept([j \in 1..Len(d.columns) |-> d.dtypes[j] # "object"]))

HasObjectColumn(d) == \E j \in 1..Len(d.columns) : d.dtypes[j] = "object"

Resample ==
    /\ pc = "resample"
    /\ \/ \* a text column left in df: mean() raises TypeError (pandas 2) ...
          /\ HasObjectColumn(df)
          /\ messages' = Append(messages, "exception: TypeError")
          /\ pc' = "crashed"
          /\ UNCHANGED df_daily
       \/ \* ... or leaves the column out (pandas 1)
          /\ df_daily' = ResampleDailyMean(NumericOnly(df))
          /\ pc' = "len_check"
          /\ UNCHANGED messages
    /\ UNCHANGED <<csv, df, date_col, pollutant_cols, selected_pollutants,
                   start_date, end_date, rolling_avg>>

----------------------------------------------------------------------------
\* Lines 63-64 and 86-89: the short-range warning, the rolling average.

\* The comparison off by one: 7 rows count as short too.
IsShortInclusive(daily) == Len(daily.rows) <= 7

\* `if len(df_daily) < 7:`
IsShort(daily) == Len(daily.rows) < 7

SparseCheck ==
    /\ pc = "len_check"
    /\ \/ /\ IsShort(df_daily)
          /\ messages' = Append(messages, "warning: less than 7 days")
       \/ /\ ~IsShort(df_daily)
          /\ UNCHANGED messages
    /\ pc' = "rolling"
    /\ UNCHANGED <<csv, df, date_col, pollutant_cols, selected_pollutants,
                   start_date, end_date, df_daily, rolling_avg>>

\* rolling(window=7).mean(): a window needs 7 rows, none of them missing
RollingMean(daily) ==
    [daily EXCEPT !.rows =
        [i \in 1..Len(daily.rows) |->
            [daily.rows[i] EXCEPT !.cells =
                [j \in 1..Len(daily.columns) |->
                    LET win == [k \in 1..7 |-> daily.rows[i - 7 + k].cells[j]]
                    IN  IF i < 7 THEN NaN
                        ELSE IF \E k \in 1..7 : IsNa(win[k]) THEN NaN
                        ELSE MeanOf(win)]]]]

Rolling ==
    /\ pc = "rolling"
    /\ \/ /\ Len(df_daily.rows) >= 7
          /\ rolling_avg' = RollingMean(df_daily)
       \/ /\ Len(df_daily.rows) < 7
          /\ rolling_avg' = df_daily
    /\ pc' = "charts"
    /\ UNCHANGED <<csv, df, date_col, pollutant_cols, selected_pollutants,
                   start_date, end_date, df_daily, messages>>

Next ==
    \/ Load
    \/ TemporalIndex
    \/ Classify
    \/ Select
    \/ DateInputs
    \/ RangeFilter
    \/ Coerce
    \/ DropAllMissing
    \/ Resample
    \/ SparseCheck
    \/ Rolling

Spec == Init /\ [][Next]_vars

----------------------------------------------------------------------------
\* Properties

RECURSIVE TotalOver(_, _)
TotalOver(S, f) ==
    IF S = {} THEN 0
    ELSE LET x == CHOOSE x \in S : TRUE
         IN  f[x] + TotalOver(S \ {x}, f)

Shown(m) == \E i \in 1..Len(messages) : messages[i] = m

\* df_daily exists: line 62 has run without raising
DailyProduced == pc \in {"len_check", "rolling", "charts"}

\* The calendar days on which the validity-gated table df has a row
DataDays == {DateOf(df.rows[i].idx) : i \in 1..Len(df.rows)}

DailyDays == {DateOf(df_daily.rows[i].idx) : i \in 1..Len(df_daily.rows)}

\* C1: for every day with a row in the validity-gated table and every selected
\* column, the daily table has a row for that day whose value is the sum of the
\* day's non-missing values divided by their number, and is missing when the
\* day has no non-missing value; a missing value counts neither as 0 nor in
\* the divisor.
C1_DailyMeanOfValidValues ==
    DailyProduced =>
        \A day \in DataDays : \A c \in selected_pollutants :
            \E i \in 1..Len(df_daily.rows) :
                /\ df_daily.rows[i].idx = Ts(24 * day)
                /\ LET cell == df_daily.rows[i].cells[ColIndex(df_daily, c)]
                       j == ColIndex(df, c)
                       valid == {k \in 1..Len(df.rows) :
                                    /\ DateOf(df.rows[k].idx) = day
                                    /\ df.rows[k].cells[j].k = "num"}
                       total == TotalOver(valid, [k \in valid |-> df.rows[k].cells[j].v])
                   IN  IF valid = {} THEN cell = NaN
                       ELSE /\ cell.k = "num"
                            /\ cell.v * Cardinality(valid) = total * cell.d

\* A day with two rows: one selected column has a value and a failed coercion,
\* another has two different values.
C1_Witness ==
    /\ pc = "charts"
    /\ Len(df.rows) = 2
    /\ DateOf(df.rows[1].idx) = DateOf(df.rows[2].idx)
    /\ \E c \in selected_pollutants :
          /\ df.rows[1].cells[ColIndex(df, c)].k = "num"
          /\ df.rows[2].cells[ColIndex(df, c)].k = "nan"
    /\ \E c \in selected_pollutants :
          /\ df.rows[1].cells[ColIndex(df, c)].k = "num"
          /\ df.rows[2].cells[ColIndex(df, c)].k = "num"
          /\ df.rows[1].cells[ColIndex(df, c)].v # df.rows[2].cells[ColIndex(df, c)].v

\* C2: coercion turns exactly the selected cells that are not numbers into
\* missing values (the numbers keep their value, the other columns are left
\* alone, the run goes on); the drop that follows removes exactly the rows
\* whose selected cells are all missing, whatever the other columns hold.
C2_CoercionAndGate ==
    [][ /\ pc = "to_numeric" =>
            /\ pc' = "dropna"
            /\ Len(df'.rows) = Len(df.rows)
            /\ \A i \in 1..Len(df.rows) : \A j \in 1..Len(df.columns) :
                  LET old == df.rows[i].cells[j]
                      new == df'.rows[i].cells[j]
                      isNumber == old.k = "num" \/ (old.k = "str" /\ IsNumeral(old.s))
                  IN  IF df.columns[j] \in selected_pollutants
                      THEN /\ isNumber => new.k = "num"
                           /\ old.k = "num" => new = old
                           /\ old.k = "str" /\ isNumber => new.v = DecimalVal(old.s)
                           /\ ~isNumber => new = NaN
                      ELSE new = old
        /\ pc = "dropna" =>
            /\ pc' = "resample"
            /\ LET keptIdx == Kept([i \in 1..Len(df.rows) |->
                                 \E j \in 1..Len(df.columns) :
                                    /\ df.columns[j] \in selected_pollutants
                                    /\ df.rows[i].cells[j].k = "num"])
               IN  df'.rows = [n \in 1..Len(keptIdx) |-> df.rows[keptIdx[n]]]
      ]_vars

\* Two rows of one day went through the gate: the one whose two selected cells
\* were both not numbers is gone, the one with a single valid cell stayed.
C2_Witness ==
    /\ pc = "resample"
    /\ csv.header = <<nDate, nPM25, nNO2>>
    /\ selected_pollutants = {nPM25, nNO2}
    /\ Len(csv.rows) = 2
    /\ csv.rows[1][1] = d0101 /\ csv.rows[2][1] = d0101
    /\ csv.rows[1][2] = vX /\ csv.rows[1][3] = vX
    /\ Len(df.rows) = 1
    /\ \E j, k \in 1..Len(df.columns) :
          df.rows[1].cells[j].k = "num" /\ df.rows[1].cells[k].k = "nan"

\* The run is just past lines 53-58: the filter let rows through, or stopped
\* the run, or one of the two date inputs raised.
RangeStepOver ==
    \/ pc = "to_numeric"
    \/ pc = "stopped" /\ selected_pollutants # {}
    \/ /\ pc = "crashed"
       /\ messages[Len(messages)] \in {"exception: AttributeError", "exception: date_input"}

\* C3: with a pollutant selected, whenever no row's date lies in [start, end]
\* the run stops with the "no data for selected range" error.
C3_EmptyRangeStopsWithError ==
    ( /\ RangeStepOver
      /\ selected_pollutants # {}
      /\ \A i \in 1..Len(df.rows) :
            ~(df.index = "datetime" /\ InRange(df.rows[i].idx, start_date, end_date)) )
    => /\ pc = "stopped"
       /\ Shown("error: no data for selected range")

\* C4: the resampling step is never reached, and no daily table is made, with
\* an empty working table.
C4_NoResampleOfEmptyTable ==
    pc \in {"resample", "len_check", "rolling", "charts"} => df.rows # <<>>

\* C5: the daily table has exactly one row for each day that has a row in the
\* validity-gated table and no other row, so its length is the number of
\* distinct data days.
C5_OnlyDataDays ==
    DailyProduced =>
        /\ DailyDays = DataDays
        /\ Len(df_daily.rows) = Cardinality(DataDays)

\* C5 (amended): the daily table has exactly one row for each calendar day from
\* the first data day to the last, both included, in ascending order, and none
\* when there is no data; the row of a day without data holds missing values
\* in every column, never a zero.
C5_EveryDayOfSpan ==
    DailyProduced =>
        /\ \A d \in DailyDays : \E a, b \in DataDays : a <= d /\ d <= b
        /\ \A a, b \in DataDays : \A d \in a..b : d \in DailyDays
        /\ Len(df_daily.rows) = Cardinality(DailyDays)
        /\ \A i \in 1..Len(df_daily.rows) :
              /\ i > 1 => df_daily.rows[i - 1].idx.v < df_daily.rows[i].idx.v
              /\ DateOf(df_daily.rows[i].idx) \notin DataDays =>
                    \A j \in 1..Len(df_daily.columns) : df_daily.rows[i].cells[j] = NaN

\* Two data days with days between them that have no row, and the daily table
\* has rows for those days.
C5_Witness ==
    /\ pc = "charts"
    /\ Cardinality(DataDays) = 2
    /\ \E d \in DailyDays : d \notin DataDays

Warned == Shown("warning: less than 7 days")

\* C6: with at least one and fewer than 7 distinct data days the warning is
\* shown and the daily table is not empty; with 7 or more it is not shown.
C6_WarningCountsDataDays ==
    (pc \in {"rolling", "charts"} /\ DataDays # {}) =>
        /\ Warned <=> Cardinality(DataDays) < 7
        /\ df_daily.rows # <<>>

\* C6 (amended): the check of line 63 shows the warning exactly when the
\* calendar span from the first data day to the last, both included (0 days
\* when there is no data), is shorter than 7 days; it never stops the run and
\* leaves the daily table as it was, non-empty whenever there is data; and a
\* short daily table is its own rolling average.
C6_WarningCountsSpan ==
    [][ LET span == IF DataDays = {} THEN 0
                    ELSE (CHOOSE b \in DataDays : \A d \in DataDays : d <= b)
                         - (CHOOSE a \in DataDays : \A d \in DataDays : a <= d) + 1
        IN  /\ pc = "len_check" =>
                /\ pc' = "rolling"
                /\ Warned' <=> span < 7
                /\ df_daily' = df_daily
                /\ DataDays # {} => df_daily'.rows # <<>>
            /\ pc = "rolling" =>
                /\ pc' = "charts"
                /\ messages' = messages
                /\ span < 7 => rolling_avg' = df_daily
      ]_vars

\* Two adjacent data days: the warning was shown and the run reached the charts
\* with a daily table of two rows.
C6_Witness ==
    /\ pc = "charts"
    /\ Warned
    /\ Cardinality(DataDays) = 2
    /\ Len(df_daily.rows) = 2
    /\ rolling_avg = df_daily

\* C7: without a date column the run shows the warning and, with a pollutant
\* selected, goes on to the later steps instead of failing.
C7_NoDateColumnIsNotFatal ==
    (Shown("warning: no date column detected") /\ selected_pollutants # {})
        => pc # "crashed"

\* C8: when no column name of the loaded table contains pm2, pm10, no2, so2, co
\* or o3, nothing is selected and the run stops at the selection check with no
\* date chosen, no filtering and no daily table; and in every run the steps
\* from the date inputs on are reached only with a non-empty selection.
C8_EmptySelectionStopsFirst ==
    /\ ( /\ pc \notin {"read_csv", "date_col", "pollutant_cols"}
         /\ \A j \in 1..Len(csv.header) :
               \A x \in { <<"p","m","2">>, <<"p","m","1","0">>, <<"n","o","2">>,
                          <<"s","o","2">>, <<"c","o">>, <<"o","3">> } :
                   ~Contains(Lower(csv.header[j]), x) )
       => /\ pollutant_cols = <<>>
          /\ selected_pollutants = {}
          /\ pc \in {"multiselect", "stopped"}
          /\ start_date = NaT /\ end_date = NaT
          /\ df_daily = EmptyFrame
          /\ ~Shown("error: no data for selected range")
          /\ pc = "stopped" => Shown("warning: select at least one pollutant")
    /\ pc \in {"date_input", "range_filter", "to_numeric", "dropna", "resample",
               "len_check", "rolling", "charts", "crashed"}
       => selected_pollutants # {}

\* A table with a date column and no pollutant column: the run stopped at the
\* selection check.
C8_Witness ==
    /\ pc = "stopped"
    /\ date_col # None
    /\ df.columns # <<>>
    /\ df.rows # <<>>
    /\ pollutant_cols = <<>>

\* C9: when a column name contains "date" or "time" in any case, the left-most
\* such column becomes the key, and the table that results holds exactly the
\* rows whose key parsed as a timestamp, each with its other cells, in
\* non-decreasing order of the timestamp, none of them with an invalid one.
C9_TemporalIndexer ==
    [][ ( /\ pc = "date_col"
          /\ \E j \in 1..Len(df.columns) :
                \/ Contains(Lower(df.columns[j]), <<"d","a","t","e">>)
                \/ Contains(Lower(df.columns[j]), <<"t","i","m","e">>) )
        => LET named(j) == \/ Contains(Lower(df.columns[j]), <<"d","a","t","e">>)
                           \/ Contains(Lower(df.columns[j]), <<"t","i","m","e">>)
               key == CHOOSE j \in 1..Len(df.columns) :
                         named(j) /\ \A i \in 1..(j - 1) : ~named(i)
               parses(i) == \/ df.rows[i].cells[key].k = "num"
                            \/ /\ df.rows[i].cells[key].k = "str"
                               /\ IsDateText(df.rows[i].cells[key].s)
               others == Kept([j \in 1..Len(df.columns) |-> j # key])
           IN  /\ date_col' = df.columns[key]
               /\ df'.columns = [n \in 1..Len(others) |-> df.columns[others[n]]]
               /\ {df'.rows[i].pos : i \in 1..Len(df'.rows)}
                     = {df.rows[i].pos : i \in {k \in 1..Len(df.rows) : parses(k)}}
               /\ Len(df'.rows) = Cardinality({k \in 1..Len(df.rows) : parses(k)})
               /\ \A i \in 1..Len(df'.rows) :
                     LET o == df.rows[CHOOSE k \in 1..Len(df.rows) :
                                         df.rows[k].pos = df'.rows[i].pos]
                     IN  /\ df'.rows[i].idx.k = "ts"
                         /\ o.cells[key].k = "str" =>
                               df'.rows[i].idx.v = HoursOf(o.cells[key].s)
                         /\ df'.rows[i].cells = [n \in 1..Len(others) |-> o.cells[others[n]]]
               /\ \A a, b \in 1..Len(df'.rows) :
                     a < b => df'.rows[a].idx.v <= df'.rows[b].idx.v
      ]_vars

\* Two columns are named like dates; the left one is the key and the two rows
\* changed places.
C9_Witness ==
    /\ pc = "pollutant_cols"
    /\ csv.header = <<nTime, nDATE2, nSO2>>
    /\ date_col = nTime
    /\ Len(df.rows) = 2
    /\ df.rows[1].pos = 2
    /\ df.rows[1].idx.v < df.rows[2].idx.v

\* C10: after loading, the table has one column for each distinct header name,
\* in the order of the first occurrences and under the unchanged name, and each
\* column holds the cells of the first occurrence.
C10_FirstOccurrenceOnly ==
    pc = "date_col" =>
        LET first == Kept([j \in 1..Len(csv.header) |->
                             \A i \in 1..(j - 1) : csv.header[i] # csv.header[j]])
        IN  /\ df.columns = [n \in 1..Len(first) |-> csv.header[first[n]]]
            /\ \A i \in 1..Len(df.rows) : \A n \in 1..Len(first) :
                  LET text == csv.rows[i][first[n]]
                      cell == df.rows[i].cells[n]
                  IN  \/ text = <<>> /\ cell = NaN
                      \/ cell.k = "str" /\ cell.s = text
                      \/ cell.k = "num" /\ IsNumeral(text) /\ cell.v = DecimalVal(text)
====
